---- MODULE Spec2Model ----
(***************************************************************************)
(* State-machine model of WellGridApp (ht-qdotblot.py): the session        *)
(* variables set by init_variables, the handlers wired to the buttons,     *)
(* sliders, list and mouse, and the grid / measurement computations.       *)
(*                                                                         *)
(* Numbers.  Corner coordinates are floats in the program; the well        *)
(* centres are corner sums divided by (nrows-1) and (ncols-1).  The model  *)
(* keeps every centre as an exact multiple of 1/Scale, Scale being         *)
(* (ROWS-1)*(COLUMNS-1), so the divisions of draw_grid are exact and       *)
(* int() of measure_grid is a truncation toward zero of n/Scale.           *)
(*                                                                         *)
(* Exceptions.  A handler that raises stops where it raises; what it       *)
(* assigned before stays assigned (PySide prints the traceback and the     *)
(* event loop goes on).  err holds the exception of the last handler.      *)
(*                                                                         *)
(* Scene items.  QGraphicsScene.clear() deletes every item the scene       *)
(* holds; the lists circles, labels, corner_lines and corner_points keep   *)
(* their Python wrappers, and a method call on a wrapper whose item was    *)
(* deleted raises RuntimeError.  grid_items and corner_points record, for  *)
(* the items the lists hold, whether each is in the scene, removed from it *)
(* (alive) or deleted.                                                     *)
(*                                                                         *)
(* Sessions.  ops counts the handler calls of the session; the model       *)
(* explores every session of at most MaxOps calls.                         *)
(***************************************************************************)
EXTENDS Integers, Sequences, FiniteSets, TLC

\* ---------------------------------------------------------------- constants
ROI_RADIUS == 15
SATURATION == 50
ROWS == 8
COLUMNS == 12
MAXINT16 == 65535
MAXINT8 == 255

\* ------------------------------------------------------------------- bounds
MaxImages == 1
MaxOffset == 1
MaxSpacing == 1
MaxRadiusStep == 1
MaxIncrement == 1
MaxOps == 7

\* exact denominator of every centre coordinate
Scale == (ROWS - 1) * (COLUMNS - 1)

\* scene positions a press can land on (the view also maps presses outside
\* the pixmap, hence the negative abscissa)
Points == { <<0, 0>>, <<-22, 0>>, <<0, 7>> }

RadiusValues == ROI_RADIUS .. (ROI_RADIUS + MaxRadiusStep)
SaturationValues == { SATURATION, 1000 }
Increments == 1 .. MaxIncrement
Moves == { <<0, -1>>, <<-1, 0>>, <<1, 0>>, <<0, 1>> }
Directions == { "width", "height" }

\* current_image = None
None == << >>

\* files the open dialog can return: a 16-bit plate, an 8-bit strip, and a
\* file the codec cannot decode (cv2.imread returns None)
Files == { "plate16.tif", "strip8.png", "broken.tif" }

FileBits(f) == IF f = "strip8.png" THEN 8 ELSE 16

\* cv2.imread(file_path, IMREAD_UNCHANGED): rows of samples, or None
imread(f) ==
    CASE f = "plate16.tif" ->
            [y \in 1..2 |-> [x \in 1..8 |-> 1 + ((x + y) % 3)]]
      [] f = "strip8.png" ->
            [y \in 1..1 |-> [x \in 1..4 |-> (x - 1) % 3]]
      [] OTHER -> None

\* cv2.convertScaleAbs(img, alpha): |v * alpha| rounded and saturated to 8 bit
convertScaleAbs(img, alpha) ==
    [y \in 1..Len(img) |-> [x \in 1..Len(img[y]) |->
        LET v == img[y][x] * alpha IN IF v > MAXINT8 THEN MAXINT8 ELSE v]]

\* ------------------------------------------------------------------ vectors
VAdd(a, b) == << a[1] + b[1], a[2] + b[2] >>
VSub(a, b) == << a[1] - b[1], a[2] - b[2] >>
VMul(k, a) == << k * a[1], k * a[2] >>

\* int(x) of a float x = n/Scale: truncation toward zero
TruncInt(n) == IF n >= 0 THEN n \div Scale ELSE -((-n) \div Scale)

\* -------------------------------------------------------------------- state
VARIABLES images, image_paths, current_row, current_image, original_image,
          roi_radius, grid_offset, grid_spacing, corners, corner_points,
          corner_lines, circles, labels, grid_items, measurements,
          saturation_fraction, defining_grid, grid_defined,
          spacing_increment, mousePressEvent, err, ops

vars == << images, image_paths, current_row, current_image, original_image,
           roi_radius, grid_offset, grid_spacing, corners, corner_points,
           corner_lines, circles, labels, grid_items, measurements,
           saturation_fraction, defining_grid, grid_defined,
           spacing_increment, mousePressEvent, err, ops >>

\* the session as one value, so that a handler is a function of it
Self ==
    [ images |-> images, image_paths |-> image_paths,
      current_row |-> current_row, current_image |-> current_image,
      original_image |-> original_image, roi_radius |-> roi_radius,
      grid_offset |-> grid_offset, grid_spacing |-> grid_spacing,
      corners |-> corners, corner_points |-> corner_points,
      corner_lines |-> corner_lines, circles |-> circles, labels |-> labels,
      grid_items |-> grid_items, measurements |-> measurements,
      saturation_fraction |-> saturation_fraction,
      defining_grid |-> defining_grid, grid_defined |-> grid_defined,
      spacing_increment |-> spacing_increment,
      mousePressEvent |-> mousePressEvent, err |-> "none" ]

\* one handler call that leaves the session as s
Becomes(s) ==
    /\ ops < MaxOps
    /\ ops' = ops + 1
    /\ images' = s.images
    /\ image_paths' = s.image_paths
    /\ current_row' = s.current_row
    /\ current_image' = s.current_image
    /\ original_image' = s.original_image
    /\ roi_radius' = s.roi_radius
    /\ grid_offset' = s.grid_offset
    /\ grid_spacing' = s.grid_spacing
    /\ corners' = s.corners
    /\ corner_points' = s.corner_points
    /\ corner_lines' = s.corner_lines
    /\ circles' = s.circles
    /\ labels' = s.labels
    /\ grid_items' = s.grid_items
    /\ measurements' = s.measurements
    /\ saturation_fraction' = s.saturation_fraction
    /\ defining_grid' = s.defining_grid
    /\ grid_defined' = s.grid_defined
    /\ spacing_increment' = s.spacing_increment
    /\ mousePressEvent' = s.mousePressEvent
    /\ err' = s.err

\* WellGridApp.init_variables
init_variables(s) ==
    [ s EXCEPT !.images = << >>, !.image_paths = << >>,
               !.current_image = None, !.original_image = None,
               !.roi_radius = ROI_RADIUS,
               !.grid_offset = <<0, 0>>, !.grid_spacing = <<0, 0>>,
               !.corners = << >>, !.corner_points = << >>,
               !.corner_lines = << >>, !.circles = << >>, !.labels = << >>,
               !.grid_items = "scene", !.measurements = << >>,
               !.saturation_fraction = SATURATION,
               !.defining_grid = FALSE, !.grid_defined = FALSE,
               !.spacing_increment = 1 ]

\* state after WellGridApp.__init__: init_variables, an empty image list
\* (currentRow() = -1) and the view's own mousePressEvent
Init ==
    /\ images = << >>
    /\ image_paths = << >>
    /\ current_row = -1
    /\ current_image = None
    /\ original_image = None
    /\ roi_radius = ROI_RADIUS
    /\ grid_offset = <<0, 0>>
    /\ grid_spacing = <<0, 0>>
    /\ corners = << >>
    /\ corner_points = << >>
    /\ corner_lines = << >>
    /\ circles = << >>
    /\ labels = << >>
    /\ grid_items = "scene"
    /\ measurements = << >>
    /\ saturation_fraction = SATURATION
    /\ defining_grid = FALSE
    /\ grid_defined = FALSE
    /\ spacing_increment = 1
    /\ mousePressEvent = "QGraphicsView"
    /\ err = "none"
    /\ ops = 0

\* ------------------------------------------------------------- scene items
\* image_scene.clear(): every item in the scene is deleted
scene_clear(s) ==
    [ s EXCEPT
        !.grid_items = IF Len(s.circles) > 0 /\ s.grid_items = "scene"
                       THEN "deleted" ELSE s.grid_items,
        !.corner_points = [k \in 1..Len(s.corner_points) |->
                             IF s.corner_points[k] = "scene" THEN "deleted"
                             ELSE s.corner_points[k]] ]

\* remove_scene_items over a list of item states: items before the first
\* deleted one leave the scene; item.scene() raises on the deleted one
remove_scene_items(items) ==
    LET dead == { k \in 1..Len(items) : items[k] = "deleted" }
        first == IF dead = {} THEN Len(items) + 1
                 ELSE CHOOSE k \in dead : \A m \in dead : k <= m
    IN [ raised |-> dead # {},
         items |-> [k \in 1..Len(items) |->
                      IF k < first THEN "removed" ELSE items[k]] ]

\* WellGridApp.erase_grid: circles, labels, corner_lines, then corner_points
erase_grid(s) ==
    IF Len(s.circles) > 0 /\ s.grid_items = "deleted"
    THEN [ s EXCEPT !.err = "RuntimeError" ]
    ELSE LET g == IF Len(s.circles) > 0 THEN "removed" ELSE s.grid_items
             p == remove_scene_items(s.corner_points)
         IN [ s EXCEPT !.grid_items = g, !.corner_points = p.items,
                       !.err = IF p.raised THEN "RuntimeError" ELSE s.err ]

\* get_well_name numbering the columns from 0
get_well_name_from_zero(row, col) ==
    << "A", "B", "C", "D", "E", "F", "G", "H" >>[row + 1]
      \o << "00", "01", "02", "03", "04", "05",
            "06", "07", "08", "09", "10", "11" >>[col + 1]

\* WellGridApp.get_well_name
Letters == << "A", "B", "C", "D", "E", "F", "G", "H", "I", "J" >>
Digits == << "0", "1", "2", "3", "4", "5", "6", "7", "8", "9" >>
get_well_name(row, col) ==
    Letters[row + 1] \o Digits[((col + 1) \div 10) + 1]
                     \o Digits[((col + 1) % 10) + 1]

\* WellGridApp.draw_orientation_lines
draw_orientation_lines(s) ==
    IF Len(s.corners) = 3
    THEN LET a1 == s.corners[1]
             a12 == s.corners[2]
             h1 == s.corners[3]
         IN [ s EXCEPT !.corner_lines = << <<a1, a12>>, <<a1, h1>> >> ]
    ELSE s

\* the centre draw_grid computes for well (i, j), without "once per step":
\* the spacing adjustment is added a single time
grid_center_spacing_once(s, i, j) ==
    LET a1 == s.corners[1]
        row_vec == VMul(COLUMNS - 1, VSub(s.corners[3], a1))
        col_vec == VMul(ROWS - 1, VSub(s.corners[2], a1))
        a1o == VMul(Scale, VAdd(a1, s.grid_offset))
    IN VAdd(VAdd(a1o, VMul(Scale, s.grid_spacing)),
            VAdd(VMul(i, row_vec), VMul(j, col_vec)))

\* the same with the offset added to each step instead of to the origin
grid_center_offset_per_step(s, i, j) ==
    LET a1 == s.corners[1]
        row_vec == VMul(COLUMNS - 1, VSub(s.corners[3], a1))
        col_vec == VMul(ROWS - 1, VSub(s.corners[2], a1))
        off == VMul(Scale, s.grid_offset)
        row_step == VAdd(VAdd(row_vec, off), <<0, Scale * s.grid_spacing[2]>>)
        col_step == VAdd(VAdd(col_vec, off), <<Scale * s.grid_spacing[1], 0>>)
    IN VAdd(VMul(Scale, a1), VAdd(VMul(i, row_step), VMul(j, col_step)))

\* draw_grid, lines 748-765: the centre of well (i, j), in units of 1/Scale
grid_center(s, i, j) ==
    LET a1 == s.corners[1]
        a12 == s.corners[2]
        h1 == s.corners[3]
        \* (h1 - a1) / (nrows - 1) and (a12 - a1) / (ncols - 1)
        row_vec == VMul(COLUMNS - 1, VSub(h1, a1))
        col_vec == VMul(ROWS - 1, VSub(a12, a1))
        \* a1 += grid_offset, on the local copy np.array(corners[0])
        a1o == VMul(Scale, VAdd(a1, s.grid_offset))
        row_step == VAdd(row_vec, <<0, Scale * s.grid_spacing[2]>>)
        col_step == VAdd(col_vec, <<Scale * s.grid_spacing[1], 0>>)
    IN VAdd(a1o, VAdd(VMul(i, row_step), VMul(j, col_step)))

\* WellGridApp.draw_grid
draw_grid(s) ==
    IF Len(s.corners) # 3 THEN s
    ELSE [ s EXCEPT
             !.circles = [k \in 1..(ROWS * COLUMNS) |->
                 grid_center(s, (k - 1) \div COLUMNS, (k - 1) % COLUMNS)],
             !.labels = [k \in 1..(ROWS * COLUMNS) |->
                 get_well_name((k - 1) \div COLUMNS, (k - 1) % COLUMNS)],
             !.grid_items = "scene" ]

\* WellGridApp.update_grid
update_grid(s) ==
    LET e == erase_grid(s)
    IN IF e.err # "none" THEN e
       ELSE draw_grid(draw_orientation_lines(e))

\* WellGridApp.update_image (adjust_image only feeds the pixmap)
update_image(s) ==
    IF s.current_image # None THEN update_grid(scene_clear(s)) ELSE s

\* WellGridApp.show_image
show_image(s) ==
    IF s.current_row >= 0
    THEN update_image([ s EXCEPT
            !.current_image = s.images[s.current_row + 1],
            !.original_image = s.images[s.current_row + 1] ])
    ELSE s

\* WellGridApp.remove_grid
remove_grid(s) ==
    LET e == erase_grid(s)
    IN IF e.err # "none" THEN e
       ELSE [ e EXCEPT !.circles = << >>, !.labels = << >>,
                       !.corner_lines = << >>, !.corner_points = << >>,
                       !.corners = << >>, !.grid_items = "scene" ]

\* WellGridApp.reset_grid
reset_grid(s) ==
    IF s.grid_defined
    THEN remove_grid([ s EXCEPT !.grid_defined = FALSE ])
    ELSE s

\* WellGridApp.define_grid
define_grid(s) ==
    IF s.current_image = None THEN s
    ELSE LET r == reset_grid(s)
         IN IF r.err # "none" THEN r
            ELSE [ r EXCEPT !.grid_defined = FALSE, !.defining_grid = TRUE,
                            !.mousePressEvent = "on_mouse_press" ]

\* WellGridApp.reset_define_grid
reset_define_grid(s) ==
    LET r == reset_grid(s)
    IN IF r.err # "none" THEN r
       ELSE [ r EXCEPT !.defining_grid = FALSE, !.mousePressEvent = "None" ]

\* WellGridApp.toggle_define_grid_mode
toggle_define_grid_mode(s) ==
    IF s.defining_grid THEN reset_define_grid(s)
    ELSE LET r == IF s.grid_defined THEN reset_grid(s) ELSE s
         IN IF r.err # "none" THEN r ELSE define_grid(r)

\* on_mouse_press taking the press whether or not a definition is going on
on_mouse_press_any_mode(s, p) ==
    IF Len(s.corners) < 3
    THEN LET t == [ s EXCEPT !.corners = Append(s.corners, p),
                      !.corner_points = Append(s.corner_points, "scene") ]
         IN IF Len(t.corners) = 3
            THEN draw_grid(draw_orientation_lines(
                   [ t EXCEPT !.grid_defined = TRUE, !.defining_grid = FALSE,
                              !.mousePressEvent = "None" ]))
            ELSE t
    ELSE s

\* WellGridApp.on_mouse_press
on_mouse_press(s, p) ==
    IF Len(s.corners) < 3 /\ s.defining_grid
    THEN LET t == [ s EXCEPT !.corners = Append(s.corners, p),
                      !.corner_points = Append(s.corner_points, "scene") ]
         IN IF Len(t.corners) = 3
            THEN draw_grid(draw_orientation_lines(
                   [ t EXCEPT !.grid_defined = TRUE, !.defining_grid = FALSE,
                              !.mousePressEvent = "None" ]))
            ELSE t
    ELSE s

\* adjust_grid_spacing leaving the other axis as it is
adjust_grid_spacing_independent(s, direction, value) ==
    LET t == IF direction = "width"
             THEN [ s EXCEPT !.grid_spacing =
                      <<s.grid_spacing[1] + value, s.grid_spacing[2]>> ]
             ELSE [ s EXCEPT !.grid_spacing =
                      <<s.grid_spacing[1], s.grid_spacing[2] + value>> ]
    IN update_grid(t)

\* WellGridApp.adjust_grid_spacing
adjust_grid_spacing(s, direction, value) ==
    LET t == IF direction = "width"
             THEN [ s EXCEPT !.grid_spacing = <<s.grid_spacing[1] + value, 0>> ]
             ELSE IF direction = "height"
             THEN [ s EXCEPT !.grid_spacing = <<0, s.grid_spacing[2] + value>> ]
             ELSE s
    IN update_grid(t)

\* move_grid placing the grid at (dx, dy) instead of moving it by (dx, dy)
move_grid_sets_offset(s, dx, dy) ==
    update_grid([ s EXCEPT !.grid_offset = << dx, dy >> ])

\* WellGridApp.move_grid
move_grid(s, dx, dy) ==
    update_grid([ s EXCEPT !.grid_offset =
                    << s.grid_offset[1] + dx, s.grid_offset[2] + dy >> ])

\* WellGridApp.adjust_roi_radius
adjust_roi_radius(s, value) ==
    update_grid([ s EXCEPT !.roi_radius = value ])

\* WellGridApp.adjust_saturation (value / 1000.0 kept in thousandths)
adjust_saturation(s, value) ==
    update_image([ s EXCEPT !.saturation_fraction = value ])

\* WellGridApp.set_spacing_increment
set_spacing_increment(s, value) ==
    [ s EXCEPT !.spacing_increment = value ]

\* reset_app that leaves the grid parameters as they are
reset_app_keeps_parameters(s) ==
    [ init_variables(s) EXCEPT !.current_row = -1,
                               !.grid_offset = s.grid_offset,
                               !.grid_spacing = s.grid_spacing,
                               !.roi_radius = s.roi_radius ]

\* WellGridApp.reset_app: init_variables, image_list.clear(), scene.clear()
reset_app(s) ==
    [ init_variables(s) EXCEPT !.current_row = -1 ]

\* ------------------------------------------------------------- measurement
\* 0-based indices selected by the slice [start:stop] on an axis of length n
\* (start >= 0 here; a negative stop counts from the end of the axis)
SliceIndices(start, stop, n) ==
    LET lo == IF start > n THEN n ELSE start
        hi == IF stop < 0 THEN (IF stop + n < 0 THEN 0 ELSE stop + n)
              ELSE (IF stop > n THEN n ELSE stop)
    IN { k \in 0..(n - 1) : lo <= k /\ k < hi }

Max2(a, b) == IF a > b THEN a ELSE b
Min2(a, b) == IF a < b THEN a ELSE b

\* measure_grid, lines 810-813: the columns and rows of roi_pixels
roi_columns(image, center_x, radius) ==
    LET x_min == Max2(0, center_x - radius)
        x_max == Min2(Len(image[1]), center_x + radius)
    IN SliceIndices(x_min, x_max, Len(image[1]))

roi_rows(image, center_y, radius) ==
    LET y_min == Max2(0, center_y - radius)
        y_max == Min2(Len(image), center_y + radius)
    IN SliceIndices(y_min, y_max, Len(image))

\* the pixel positions (x, y) that roi_pixels holds
roi_positions(image, center_x, center_y, radius) ==
    roi_columns(image, center_x, radius) \X roi_rows(image, center_y, radius)

SetMax(S) == CHOOSE v \in S : \A w \in S : w <= v
SetMin(S) == CHOOSE v \in S : \A w \in S : v <= w

\* np.bincount over the samples at positions P: occurrences of 0..max
bincount(image, P) ==
    LET top == SetMax({ image[q[2] + 1][q[1] + 1] : q \in P })
    IN [ v \in 0..top |->
           Cardinality({ q \in P : image[q[2] + 1][q[1] + 1] = v }) ]

\* argmax returning the last index holding the largest entry
argmax_last(counts) ==
    CHOOSE v \in DOMAIN counts :
        /\ \A w \in DOMAIN counts : counts[w] <= counts[v]
        /\ \A w \in DOMAIN counts : counts[w] = counts[v] => w <= v

\* np.argmax: the first index holding the largest entry
argmax(counts) ==
    CHOOSE v \in DOMAIN counts :
        /\ \A w \in DOMAIN counts : counts[w] <= counts[v]
        /\ \A w \in DOMAIN counts : counts[w] = counts[v] => v <= w

\* one iteration of the loop of measure_grid for circle i (0-based); of the
\* statistics the record keeps mode, min and max (median, mean and stdev
\* are computed from the same roi_pixels and stored beside them)
measure_well(s, i) ==
    LET center_x == TruncInt(s.circles[i + 1][1])
        center_y == TruncInt(s.circles[i + 1][2])
        radius == s.roi_radius
        P == roi_positions(s.current_image, center_x, center_y, radius)
        vals == { s.current_image[q[2] + 1][q[1] + 1] : q \in P }
    IN [ well |-> get_well_name(i \div COLUMNS, i % COLUMNS),
         x_center |-> center_x, y_center |-> center_y,
         mode |-> argmax(bincount(s.current_image, P)),
         min |-> SetMin(vals), max |-> SetMax(vals) ]

\* the window of circle i holds no pixel: argmax of an empty bincount raises
empty_roi(s, i) ==
    \/ roi_columns(s.current_image, TruncInt(s.circles[i + 1][1]),
                   s.roi_radius) = {}
    \/ roi_rows(s.current_image, TruncInt(s.circles[i + 1][2]),
                s.roi_radius) = {}

\* the loop of measure_grid: it appends one record per circle and stops at
\* the first circle that raises (circ.rect() on a deleted item, or argmax of
\* the bincount of an empty window)
measure_loop(s) ==
    LET n == Len(s.circles)
        empty == { i \in 0..(n - 1) : empty_roi(s, i) }
        stop == IF s.grid_items = "deleted" THEN 0
                ELSE IF empty = {} THEN n ELSE SetMin(empty)
    IN [ s EXCEPT
           !.measurements = [k \in 1..stop |-> measure_well(s, k - 1)],
           !.err = IF stop = n THEN "none"
                   ELSE IF s.grid_items = "deleted" THEN "RuntimeError"
                   ELSE "ValueError" ]

\* WellGridApp.measure_grid
measure_grid(s) ==
    IF s.current_image = None \/ Len(s.circles) = 0 THEN s
    ELSE measure_loop([ s EXCEPT !.measurements = << >> ])

\* ------------------------------------------------------------------ images
\* WellGridApp.load_image with the dialog returning file_path
load_image(s, file_path) ==
    LET t == [ s EXCEPT !.image_paths = Append(s.image_paths, file_path) ]
        img == imread(file_path)
    IN IF img = None THEN [ t EXCEPT !.err = "AttributeError" ]
       ELSE LET img16 == IF FileBits(file_path) # 16
                         THEN convertScaleAbs(img, MAXINT16 \div MAXINT8)
                         ELSE img
                u == [ t EXCEPT !.images = Append(t.images, img16) ]
            IN IF Len(u.images) = 1
               THEN show_image([ u EXCEPT !.current_row = 0 ])
               ELSE u

\* ------------------------------------------------------------------ actions
LoadImage ==
    \E f \in Files :
        /\ Len(image_paths) < MaxImages
        /\ Becomes(load_image(Self, f))

\* itemClicked on row k of the image list
SelectImage ==
    \E k \in 0..(Len(images) - 1) :
        Becomes(show_image([ Self EXCEPT !.current_row = k ]))

AdjustSaturation ==
    \E v \in SaturationValues : Becomes(adjust_saturation(Self, v))

ToggleDefineGridMode == Becomes(toggle_define_grid_mode(Self))

\* a press on the view reaches on_mouse_press only while it is installed
MousePress ==
    \E p \in Points :
        IF mousePressEvent = "on_mouse_press"
        THEN Becomes(on_mouse_press(Self, p))
        ELSE Becomes([ Self EXCEPT !.err = err ])

AdjustRoiRadius ==
    \E v \in RadiusValues : Becomes(adjust_roi_radius(Self, v))

SetSpacingIncrement ==
    \E v \in Increments : Becomes(set_spacing_increment(Self, v))

InRange(v, m) == -m <= v /\ v <= m

AdjustGridSpacing ==
    \E direction \in Directions, sign \in {1, -1} :
        LET value == sign * spacing_increment
        IN /\ InRange(grid_spacing[1] + value, MaxSpacing)
           /\ InRange(grid_spacing[2] + value, MaxSpacing)
           /\ Becomes(adjust_grid_spacing(Self, direction, value))

MoveGrid ==
    \E d \in Moves :
        /\ InRange(grid_offset[1] + d[1], MaxOffset)
        /\ InRange(grid_offset[2] + d[2], MaxOffset)
        /\ Becomes(move_grid(Self, d[1], d[2]))

MeasureGrid == Becomes(measure_grid(Self))

ResetApp == Becomes(reset_app(Self))

Next ==
    \/ LoadImage
    \/ SelectImage
    \/ AdjustSaturation
    \/ ToggleDefineGridMode
    \/ MousePress
    \/ AdjustRoiRadius
    \/ SetSpacingIncrement
    \/ AdjustGridSpacing
    \/ MoveGrid
    \/ MeasureGrid
    \/ ResetApp

Spec == Init /\ [][Next]_vars

\* ------------------------------------------------------------- properties
\* the session variables other than the outcome of the last call and the
\* call count
session == << images, image_paths, current_row, current_image,
              original_image, roi_radius, grid_offset, grid_spacing, corners,
              corner_points, corner_lines, circles, labels, grid_items,
              measurements, saturation_fraction, defining_grid, grid_defined,
              spacing_increment, mousePressEvent >>

\* C1: cancelling while Picking with 1 or 2 corners collected moves to Idle
\* and leaves the corner sequence empty.
C1_CancelClearsCorners ==
    [][ (defining_grid /\ Len(corners) \in {1, 2} /\ ToggleDefineGridMode)
          => (~defining_grid' /\ ~grid_defined' /\ corners' = << >>) ]_vars

\* the wells of the current grid whose window on the current image is empty
EmptyWells == { i \in 0..(Len(circles) - 1) : empty_roi(Self, i) }

\* C2: a measure pass over a loaded image and a live grid with an empty
\* window does not crash: it ends without an exception and holds a record
\* for every well whose window has pixels.
C2_MeasureSurvivesEmptyWindow ==
    [][ ( /\ current_image # None
          /\ Len(circles) > 0
          /\ grid_items # "deleted"
          /\ EmptyWells # {}
          /\ MeasureGrid )
        => ( /\ err' = "none"
             /\ \A i \in 0..(Len(circles) - 1) :
                  i \notin EmptyWells =>
                    \E k \in 1..Len(measurements') :
                      measurements'[k].well =
                        get_well_name(i \div COLUMNS, i % COLUMNS) ) ]_vars

\* the square [cx-r, cx+r) x [cy-r, cy+r) cut to [0, W) x [0, H)
ClampedSquare(image, cx, cy, r) ==
    { q \in (0..(Len(image[1]) - 1)) \X (0..(Len(image) - 1)) :
        /\ cx - r <= q[1] /\ q[1] < cx + r
        /\ cy - r <= q[2] /\ q[2] < cy + r }

\* C3: the pixels measured for a well are exactly the clamped square, with
\* no wraparound.
C3_WindowIsClampedSquare ==
    (current_image # None) =>
        \A k \in 1..Len(circles) :
            LET cx == TruncInt(circles[k][1])
                cy == TruncInt(circles[k][2])
            IN roi_positions(current_image, cx, cy, roi_radius)
                 = ClampedSquare(current_image, cx, cy, roi_radius)

\* C4: at most one of the two spacing adjustments is non-zero, and a call
\* adjustSpacing(axis, d) adds d to that axis and zeroes the other (d is
\* never 0, so the call always changes grid_spacing).
C4_SpacingExclusive ==
    [][ /\ (grid_spacing'[1] = 0 \/ grid_spacing'[2] = 0)
        /\ \A d \in { spacing_increment, -spacing_increment } :
             /\ (grid_spacing' # grid_spacing
                   /\ Becomes(adjust_grid_spacing(Self, "width", d)))
                  => grid_spacing' = << grid_spacing[1] + d, 0 >>
             /\ (grid_spacing' # grid_spacing
                   /\ Becomes(adjust_grid_spacing(Self, "height", d)))
                  => grid_spacing' = << 0, grid_spacing[2] + d >> ]_vars

C4_Witness ==
    /\ grid_defined /\ grid_items = "scene"
    /\ grid_spacing[1] = 0 /\ grid_spacing[2] # 0
    /\ grid_offset # <<0, 0>>

\* the grid drawn last is the one the scene holds
GridDrawn == Len(circles) > 0 /\ grid_items = "scene"

\* centre of well (i, j) by the formula of §4.2, times Scale:
\* corner[0] + offset + i*((corner[2]-corner[0])/(R-1) + (0, sy))
\*                    + j*((corner[1]-corner[0])/(C-1) + (sx, 0))
FormulaCenter(i, j) ==
    << Scale * (corners[1][1] + grid_offset[1])
         + i * (COLUMNS - 1) * (corners[3][1] - corners[1][1])
         + j * ((ROWS - 1) * (corners[2][1] - corners[1][1])
                  + Scale * grid_spacing[1]),
       Scale * (corners[1][2] + grid_offset[2])
         + i * ((COLUMNS - 1) * (corners[3][2] - corners[1][2])
                  + Scale * grid_spacing[2])
         + j * (ROWS - 1) * (corners[2][2] - corners[1][2]) >>

\* C5: with 3 corners the centre drawn for well (i, j) is the formula's, on
\* the corners as they were picked (the computation does not move them).
C5_CentersFollowFormula ==
    GridDrawn =>
        /\ Len(corners) = 3
        /\ \A k \in 1..Len(corners) : corners[k] \in Points
        /\ \A i \in 0..(ROWS - 1), j \in 0..(COLUMNS - 1) :
             circles[i * COLUMNS + j + 1] = FormulaCenter(i, j)

C5_Witness ==
    /\ GridDrawn
    /\ grid_offset # <<0, 0>>
    /\ grid_spacing # <<0, 0>>

Cross(u, v) == u[1] * v[2] - u[2] * v[1]

NonCollinear(c) == Cross(VSub(c[2], c[1]), VSub(c[3], c[1])) # 0

PairwiseDistinct(seq) ==
    Cardinality({ seq[k] : k \in 1..Len(seq) }) = Len(seq)

\* the steps of the lattice along a row and along a column, times Scale
RowStep == VSub(FormulaCenter(1, 0), FormulaCenter(0, 0))
ColStep == VSub(FormulaCenter(0, 1), FormulaCenter(0, 0))

\* C6 as stated: for non-collinear corners the grid drawn has R*C pairwise
\* distinct centres, the first at corner[0] + offset, after any edits.
C6_DistinctAfterAnyEdit ==
    (GridDrawn /\ Len(corners) = 3 /\ NonCollinear(corners)) =>
        /\ Len(circles) = ROWS * COLUMNS
        /\ PairwiseDistinct(circles)
        /\ circles[1] = VMul(Scale, VAdd(corners[1], grid_offset))

\* C6 amended: R*C centres, the first at corner[0] + offset; pairwise
\* distinct whenever the adjusted row and column steps are not parallel,
\* which holds while the spacing adjustment is (0, 0).
C6_DistinctWhileStepsIndependent ==
    (GridDrawn /\ Len(corners) = 3 /\ NonCollinear(corners)) =>
        /\ Len(circles) = ROWS * COLUMNS
        /\ circles[1] = VMul(Scale, VAdd(corners[1], grid_offset))
        /\ grid_spacing = <<0, 0>> => Cross(RowStep, ColStep) # 0
        /\ Cross(RowStep, ColStep) # 0 => PairwiseDistinct(circles)

C6_Witness ==
    /\ GridDrawn /\ Len(corners) = 3 /\ NonCollinear(corners)
    /\ grid_offset # <<0, 0>>
    /\ grid_spacing # <<0, 0>>
    /\ Cross(RowStep, ColStep) # 0

\* the session as init_variables leaves it, with an empty image list
InitialSession ==
    /\ images = << >> /\ image_paths = << >> /\ current_row = -1
    /\ current_image = None /\ original_image = None
    /\ roi_radius = ROI_RADIUS
    /\ grid_offset = <<0, 0>> /\ grid_spacing = <<0, 0>>
    /\ corners = << >> /\ corner_points = << >> /\ corner_lines = << >>
    /\ circles = << >> /\ labels = << >>
    /\ measurements = << >>
    /\ saturation_fraction = SATURATION
    /\ ~defining_grid /\ ~grid_defined
    /\ spacing_increment = 1

\* C7: reset leads to Idle with the session as at start, and a click after
\* reset is ignored.
C7_ResetRestoresInitialSession ==
    [][ /\ ResetApp => InitialSession'
        /\ (InitialSession /\ MousePress) => InitialSession' ]_vars

\* reset was pressed while picking: on_mouse_press is still installed
C7_Witness ==
    /\ InitialSession
    /\ mousePressEvent = "on_mouse_press"

\* C8: startDefine in Defined enters Picking with no corner and no centre.
C8_RedefineClearsFirst ==
    [][ (grid_defined /\ ToggleDefineGridMode)
          => (defining_grid' /\ ~grid_defined'
              /\ corners' = << >> /\ circles' = << >>) ]_vars

C10_CentersMatchDefined ==
    /\ grid_defined => Len(circles) = ROWS * COLUMNS
    /\ ~grid_defined => Len(circles) = 0

\* the MeasurementSet of a pass over an image, centres and a radius alone:
\* one record per well up to the first well whose window is empty
MeasurementSet(image, centers, radius) ==
    LET s == [ current_image |-> image, circles |-> centers,
               roi_radius |-> radius ]
        empty == { i \in 0..(Len(centers) - 1) : empty_roi(s, i) }
        stop == IF empty = {} THEN Len(centers) ELSE SetMin(empty)
    IN [k \in 1..stop |-> measure_well(s, k - 1)]

\* C11: a measure pass with an image loaded and a grid defined yields the
\* MeasurementSet of the raw image, the centres and the radius, whatever
\* the prior set and the saturation history; it leaves the raw image as it
\* is, and a second pass right after it yields the same set.
C11_MeasureDependsOnImageCentersRadius ==
    [][ (current_image # None /\ grid_defined /\ MeasureGrid)
          => ( /\ measurements'
                    = MeasurementSet(current_image, circles, roi_radius)
               /\ images' = images
               /\ current_image' = current_image
               /\ original_image' = original_image
               /\ measure_grid(Self').measurements = measurements' ) ]_vars

\* C12: a load of a file the codec cannot decode leaves the session as it
\* was: the images, the paths, the current image, the grid and the
\* MeasurementSet are unchanged, and image_paths still pairs with images.
C12_FailedLoadChangesNothing ==
    [][ \A f \in Files :
          (imread(f) = None /\ Becomes(load_image(Self, f)))
            => ( /\ UNCHANGED session
                 /\ Len(image_paths') = Len(images') ) ]_vars

\* ----------------------------------------------------------------- contrast
\* the samples of an image in ascending order (0-based rank k)
sorted_sample(image, k) ==
    LET pos == (1..Len(image[1])) \X (1..Len(image))
        vals == { image[q[2]][q[1]] : q \in pos }
        upto(v) == Cardinality({ q \in pos : image[q[2]][q[1]] <= v })
    IN CHOOSE v \in vals :
         /\ upto(v) > k
         /\ \A w \in vals : upto(w) > k => v <= w

\* 1000 * np.percentile(image, q / 10), q in thousandths: linear
\* interpolation between the two ranks around q/1000 * (n - 1)
percentile(image, q) ==
    LET n == Len(image) * Len(image[1])
        lo == (q * (n - 1)) \div 1000
        rem == (q * (n - 1)) % 1000
    IN IF rem = 0 THEN 1000 * sorted_sample(image, lo)
       ELSE 1000 * sorted_sample(image, lo)
              + rem * (sorted_sample(image, lo + 1)
                         - sorted_sample(image, lo))

\* what astype(np.uint16) makes of NaN is not a sample of the scaled image
NaN == -1

\* floor(a * MAXINT16 / den) for 0 <= a < den, the product taken factor by
\* factor (MAXINT16 = MAXINT8 * 257) to stay within the integers of the
\* model checker
rescale(a, den) ==
    LET f == MAXINT16 \div MAXINT8
        q == (a * MAXINT8) \div den
        r == (a * MAXINT8) % den
    IN q * f + (r * f) \div den

\* WellGridApp.adjust_image: v_min and v_max are the percentiles 0 and
\* 100 - 100 * saturation_fraction; the division is a float division, so a
\* zero denominator gives NaN for 0/0 and +inf otherwise; np.clip leaves
\* NaN and cuts what exceeds MAXINT16; astype truncates
adjust_image(image, fraction) ==
    LET v_min == percentile(image, 0)
        v_max == percentile(image, 1000 - fraction)
        den == v_max - v_min
    IN [y \in 1..Len(image) |-> [x \in 1..Len(image[y]) |->
         LET a == 1000 * image[y][x] - v_min
         IN IF den = 0 THEN (IF a = 0 THEN NaN ELSE MAXINT16)
            ELSE IF a >= den THEN MAXINT16
            ELSE rescale(a, den)]]

\* the image update_image put in the scene last
pixmap ==
    IF current_image # None
    THEN adjust_image(current_image, saturation_fraction)
    ELSE None

\* C13: whenever v_max = v_min the adjusted image is one valid sample
\* repeated: no division by zero reaches the output.
C13_DegenerateRangeGivesConstant ==
    (current_image # None
       /\ percentile(current_image, 1000 - saturation_fraction)
            = percentile(current_image, 0))
    => \A y \in 1..Len(pixmap) : \A x \in 1..Len(pixmap[y]) :
         /\ 0 <= pixmap[y][x] /\ pixmap[y][x] <= MAXINT16
         /\ pixmap[y][x] = pixmap[1][1]

\* C14: an image decoded from an 8-bit file enters the session with every
\* sample v as 257 * v (= v * 65535 / 255).
C14_PromotionIsLinear ==
    \A k \in 1..Len(images) :
        (Len(image_paths) = Len(images) /\ FileBits(image_paths[k]) = 8)
        => LET img == imread(image_paths[k])
           IN images[k] = [y \in 1..Len(img) |-> [x \in 1..Len(img[y]) |->
                             (MAXINT16 \div MAXINT8) * img[y][x]]]

\* the session a handler left, as the next handler finds it
Returned(s) == [ s EXCEPT !.err = "none" ]

\* C15: translate(a) followed by translate(c) leaves the same offset and
\* the same centres as one translate(a + c), and as translate(c) followed
\* by translate(a); both translates are calls of the session.
C15_TranslateAdditive ==
    [][ \A a \in Moves :
          (ops + 1 < MaxOps /\ grid_offset' # grid_offset
             /\ Becomes(move_grid(Self, a[1], a[2])))
          => \A c \in Moves :
               LET two == move_grid(Self', c[1], c[2])
                   one == move_grid(Self, a[1] + c[1], a[2] + c[2])
                   rev == move_grid(Returned(move_grid(Self, c[1], c[2])),
                                    a[1], a[2])
               IN /\ two.grid_offset = one.grid_offset
                  /\ two.circles = one.circles
                  /\ two.grid_offset = rev.grid_offset
                  /\ two.circles = rev.circles ]_vars

\* a drawn grid after two translates
C15_Witness ==
    /\ GridDrawn
    /\ grid_offset = <<1, 1>>
    /\ circles[1] = VMul(Scale, VAdd(corners[1], <<1, 1>>))

\* C16: select-image, set-saturation and set-roi-radius leave the corners,
\* the offset, the spacing adjustment and the two flags as they are, and
\* a drawn grid is drawn again with the same centres.
C16_LatticeKeptAcrossEdits ==
    [][ (SelectImage \/ AdjustSaturation \/ AdjustRoiRadius)
          => ( /\ corners' = corners
               /\ grid_offset' = grid_offset
               /\ grid_spacing' = grid_spacing
               /\ defining_grid' = defining_grid
               /\ grid_defined' = grid_defined
               /\ GridDrawn => (GridDrawn' /\ circles' = circles) ) ]_vars

\* plate names: row letter, then the column number on 2 digits
RowLetter == << "A", "B", "C", "D", "E", "F", "G", "H" >>
ColumnNumber == << "01", "02", "03", "04", "05", "06",
                   "07", "08", "09", "10", "11", "12" >>

\* C17: in every state where the session can measure, a pass that
\* completes leaves one record per well in row-major order, record i*C + j
\* carrying the integer centre and the name of well (i, j); the first name
\* is A01, the last H12, and the names are distinct.
C17_RecordsRowMajorNamed ==
    (ops < MaxOps /\ current_image # None /\ Len(circles) > 0)
    => LET pass == measure_grid(Self)
           names == [k \in 1..Len(pass.measurements) |->
                       pass.measurements[k].well]
       IN pass.err = "none"
          => /\ Len(pass.measurements) = ROWS * COLUMNS
             /\ \A i \in 0..(ROWS - 1), j \in 0..(COLUMNS - 1) :
                  LET rec == pass.measurements[i * COLUMNS + j + 1]
                      c == circles[i * COLUMNS + j + 1]
                  IN /\ rec.well = RowLetter[i + 1] \o ColumnNumber[j + 1]
                     /\ rec.x_center = TruncInt(c[1])
                     /\ rec.y_center = TruncInt(c[2])
             /\ names[1] = "A01"
             /\ names[ROWS * COLUMNS] = "H12"
             /\ Cardinality({ names[k] : k \in 1..(ROWS * COLUMNS) })
                  = ROWS * COLUMNS

\* a completed pass over a grid on non-collinear corners
C17_Witness ==
    /\ Len(measurements) = ROWS * COLUMNS
    /\ err = "none"
    /\ GridDrawn /\ NonCollinear(corners)
    /\ measurements[ROWS * COLUMNS].x_center
         = TruncInt(circles[ROWS * COLUMNS][1])
    /\ measurements[1].x_center # measurements[COLUMNS].x_center
    /\ measurements[1].y_center # measurements[ROWS * COLUMNS].y_center

\* the window of circle k (1-based) on the current image
Window(k) ==
    roi_positions(current_image, TruncInt(circles[k][1]),
                  TruncInt(circles[k][2]), roi_radius)

\* occurrences of the value v among the samples of circle k's window
Occurrences(k, v) ==
    Cardinality({ q \in Window(k) : current_image[q[2] + 1][q[1] + 1] = v })

WindowValues(k) == { current_image[q[2] + 1][q[1] + 1] : q \in Window(k) }

\* v occurs most often in the window of circle k, and is the smallest value
\* that does
SmallestMostFrequent(k, v) ==
    /\ v \in WindowValues(k)
    /\ \A w \in WindowValues(k) :
         \/ Occurrences(k, w) < Occurrences(k, v)
         \/ (Occurrences(k, w) = Occurrences(k, v) /\ v <= w)

\* C18: in every state where the session can measure, the mode of each
\* record of the pass is the most frequent value of the well's window, the
\* smallest one when several values tie.
C18_ModeSmallestMostFrequent ==
    (ops < MaxOps /\ current_image # None /\ Len(circles) > 0)
    => LET pass == measure_grid(Self)
       IN \A k \in 1..Len(pass.measurements) :
            SmallestMostFrequent(k, pass.measurements[k].mode)

\* a measured well whose window holds a tie for the highest count
C18_Witness ==
    /\ current_image # None
    /\ \E k \in 1..Len(measurements) :
         /\ k <= Len(circles)
         /\ measurements[k].x_center = TruncInt(circles[k][1])
         /\ measurements[k].y_center = TruncInt(circles[k][2])
         /\ SmallestMostFrequent(k, measurements[k].mode)
         /\ \E w \in WindowValues(k) :
              /\ w > measurements[k].mode
              /\ Occurrences(k, w) = Occurrences(k, measurements[k].mode)

\* C19: while the grid is defined the two orientation segments run from
\* corner[0] + offset, where the centre of well (0, 0) lies, to corner[1]
\* and to corner[2].
C19_SegmentsStartAtOrigin ==
    (grid_defined /\ Len(corners) = 3)
    => LET origin == VAdd(corners[1], grid_offset)
       IN /\ corner_lines = << << origin, corners[2] >>,
                               << origin, corners[3] >> >>
          /\ GridDrawn => VMul(Scale, corner_lines[1][1]) = circles[1]

\* C20: at most 3 corners; defined exactly when there are 3; never picking
\* and defined at once; picking only with an image loaded.
C20_FlagsAgreeWithCorners ==
    /\ Len(corners) <= 3
    /\ grid_defined <=> Len(corners) = 3
    /\ ~(defining_grid /\ grid_defined)
    /\ defining_grid => current_image # None

====
